---- MODULE Spec2Model ----
(***************************************************************************)
(* Model of the grafer version manager (src/version-manager.js): the       *)
(* module-level mapping _versions and tag _sha of each open page, the      *)
(* browser's localStorage (token and per-chart cache), the store file      *)
(* versions.json behind the GitHub contents API, and the asynchronous      *)
(* operations saveVersion / updateVersion / deleteVersion / loadVersions,  *)
(* cut at their suspend points (the awaited fetch calls).                  *)
(*                                                                         *)
(* Strings that the code inspects character by character (names, slugs)    *)
(* are sequences of one-character strings.  A mapping { id: record } is    *)
(* the sequence of its records in property order (insertion order), as     *)
(* Object.keys enumerates it.                                              *)
(***************************************************************************)
EXTENDS Integers, Sequences, FiniteSets, TLC

----------------------------------------------------------------------------
(* Bounds of the model *)

\* Mutating operations started in one behaviour.
MaxStarts == 2
\* The largest n of the ids t-n that existingIds is drawn from.
MaxSuffix == 11
\* The length of the names given to slugify.
MaxNameLen == 4
\* The length, in code points, of the texts given to utf8ToBase64.
MaxTextLen == 3
\* The line length at which the transport text is broken when it comes back.
WrapWidth == 4

----------------------------------------------------------------------------
(* Characters and strings *)

UpperChars == <<"M", "T", "Æ", "Ø", "Å">>
LowerChars == <<"m", "t", "æ", "ø", "å">>
AZ == {"a", "b", "c", "d", "e", "f", "g", "h", "i", "j", "k", "l", "m",
       "n", "o", "p", "q", "r", "s", "t", "u", "v", "w", "x", "y", "z"}
Digit09 == {"0", "1", "2", "3", "4", "5", "6", "7", "8", "9"}
DigitChars == <<"0", "1", "2", "3", "4", "5", "6", "7", "8", "9">>

\* String.prototype.toLowerCase, one character.
toLowerCase(c) ==
  IF \E i \in 1..Len(UpperChars) : UpperChars[i] = c
  THEN LowerChars[CHOOSE i \in 1..Len(UpperChars) : UpperChars[i] = c]
  ELSE c

\* .replace(/æ/g,'ae').replace(/ø/g,'o').replace(/å/g,'a'), one character.
Translit(c) ==
  CASE c = "æ" -> <<"a", "e">>
    [] c = "ø" -> <<"o">>
    [] c = "å" -> <<"a">>
    [] OTHER -> <<c>>

\* .toLowerCase() of a string
RECURSIVE LowerAll(_)
LowerAll(s) ==
  IF s = <<>> THEN <<>> ELSE <<toLowerCase(Head(s))>> \o LowerAll(Tail(s))

\* The three replacements of æ, ø and å, over a lower-case string.
RECURSIVE TranslitAll(_)
TranslitAll(s) ==
  IF s = <<>> THEN <<>> ELSE Translit(Head(s)) \o TranslitAll(Tail(s))

IsAlnum(c) == c \in AZ \cup Digit09

\* .replace(/[^a-z0-9]+/g, '-'): every maximal run of other characters
\* becomes one hyphen.
RECURSIVE ReplaceRuns(_, _)
ReplaceRuns(s, inRun) ==
  IF s = <<>> THEN <<>>
  ELSE IF IsAlnum(Head(s)) THEN <<Head(s)>> \o ReplaceRuns(Tail(s), FALSE)
  ELSE IF inRun THEN ReplaceRuns(Tail(s), TRUE)
  ELSE <<"-">> \o ReplaceRuns(Tail(s), TRUE)

\* .replace(/-+/g, '-')
RECURSIVE CollapseHyphens(_, _)
CollapseHyphens(s, inRun) ==
  IF s = <<>> THEN <<>>
  ELSE IF Head(s) # "-" THEN <<Head(s)>> \o CollapseHyphens(Tail(s), FALSE)
  ELSE IF inRun THEN CollapseHyphens(Tail(s), TRUE)
  ELSE <<"-">> \o CollapseHyphens(Tail(s), TRUE)

\* .replace(/^-/, ''): the hyphen at the start only.
TrimLeadingHyphen(s) == IF s # <<>> /\ Head(s) = "-" THEN Tail(s) ELSE s

\* .replace(/^-|-$/g, ''): one hyphen at the start and one at the end.
TrimHyphens(s) ==
  LET a == IF s # <<>> /\ Head(s) = "-" THEN Tail(s) ELSE s
  IN  IF a # <<>> /\ a[Len(a)] = "-" THEN SubSeq(a, 1, Len(a) - 1) ELSE a

slugify(name) ==
  TrimHyphens(
    CollapseHyphens(
      ReplaceRuns(TranslitAll(LowerAll(name)), FALSE), FALSE))

\* The decimal digits of i, as template literal `${i}` prints them.
RECURSIVE Decimal(_)
Decimal(i) ==
  IF i < 10 THEN <<DigitChars[i + 1]>>
  ELSE Decimal(i \div 10) \o <<DigitChars[(i % 10) + 1]>>

RECURSIVE FirstFreeSuffix(_, _, _)
FirstFreeSuffix(slug, existingIds, i) ==
  IF (slug \o <<"-">> \o Decimal(i)) \in existingIds
  THEN FirstFreeSuffix(slug, existingIds, i + 1)
  ELSE slug \o <<"-">> \o Decimal(i)

\* uniqueSlug with an if in place of the while.
UniqueSlugTriesOnce(slug, existingIds) ==
  IF slug \notin existingIds THEN slug
  ELSE slug \o <<"-">> \o Decimal(2)

uniqueSlug(slug, existingIds) ==
  IF slug \notin existingIds THEN slug
  ELSE FirstFreeSuffix(slug, existingIds, 2)

----------------------------------------------------------------------------
(* The transport encoding.  A text is the sequence of its code points (a
   well-formed string), a byte array and a binary string the sequence of
   their values 0..255, a base64 text the sequence of its characters. *)

\* The UTF-8 bytes of one code point.
Utf8Bytes(cp) ==
  IF cp < 128 THEN <<cp>>
  ELSE IF cp < 2048 THEN <<192 + (cp \div 64), 128 + (cp % 64)>>
  ELSE IF cp < 65536
  THEN <<224 + (cp \div 4096), 128 + ((cp \div 64) % 64), 128 + (cp % 64)>>
  ELSE <<240 + (cp \div 262144), 128 + ((cp \div 4096) % 64),
         128 + ((cp \div 64) % 64), 128 + (cp % 64)>>

\* new TextEncoder().encode(str)
RECURSIVE TextEncoderEncode(_)
TextEncoderEncode(str) ==
  IF str = <<>> THEN <<>>
  ELSE Utf8Bytes(Head(str)) \o TextEncoderEncode(Tail(str))

Base64Chars ==
  <<"A", "B", "C", "D", "E", "F", "G", "H", "I", "J", "K", "L", "M", "N", "O",
    "P", "Q", "R", "S", "T", "U", "V", "W", "X", "Y", "Z", "a", "b", "c", "d",
    "e", "f", "g", "h", "i", "j", "k", "l", "m", "n", "o", "p", "q", "r", "s",
    "t", "u", "v", "w", "x", "y", "z", "0", "1", "2", "3", "4", "5", "6", "7",
    "8", "9", "+", "/">>
Base64Char(v) == Base64Chars[v + 1]
Base64Value(c) == CHOOSE v \in 0..63 : Base64Chars[v + 1] = c

\* btoa(binary)
RECURSIVE btoa(_)
btoa(binary) ==
  IF binary = <<>> THEN <<>>
  ELSE IF Len(binary) = 1
  THEN <<Base64Char(binary[1] \div 4), Base64Char((binary[1] % 4) * 16),
         "=", "=">>
  ELSE IF Len(binary) = 2
  THEN <<Base64Char(binary[1] \div 4),
         Base64Char((binary[1] % 4) * 16 + (binary[2] \div 16)),
         Base64Char((binary[2] % 16) * 4), "=">>
  ELSE <<Base64Char(binary[1] \div 4),
         Base64Char((binary[1] % 4) * 16 + (binary[2] \div 16)),
         Base64Char((binary[2] % 16) * 4 + (binary[3] \div 64)),
         Base64Char(binary[3] % 64)>> \o btoa(SubSeq(binary, 4, Len(binary)))

\* atob(base64), for a text of whole groups of four characters.
RECURSIVE atob(_)
atob(base64) ==
  IF Len(base64) < 4 THEN <<>>
  ELSE LET a == Base64Value(base64[1])
           b == Base64Value(base64[2])
           rest == atob(SubSeq(base64, 5, Len(base64)))
       IN  IF base64[3] = "=" THEN <<a * 4 + (b \div 16)>> \o rest
           ELSE LET c == Base64Value(base64[3])
                IN  IF base64[4] = "="
                    THEN <<a * 4 + (b \div 16), (b % 16) * 16 + (c \div 4)>> \o rest
                    ELSE <<a * 4 + (b \div 16), (b % 16) * 16 + (c \div 4),
                           (c % 4) * 64 + Base64Value(base64[4])>> \o rest

\* base64.replace(/\n/g, '')
RECURSIVE RemoveNewlines(_)
RemoveNewlines(base64) ==
  IF base64 = <<>> THEN <<>>
  ELSE (IF Head(base64) = "\n" THEN <<>> ELSE <<Head(base64)>>)
       \o RemoveNewlines(Tail(base64))

\* The UTF-8 decoder: the code points of the bytes, U+FFFD for a byte that
\* starts no sequence.
RECURSIVE Utf8Decode(_)
Utf8Decode(bytes) ==
  IF bytes = <<>> THEN <<>>
  ELSE LET b == bytes
           n == Len(bytes)
       IN  IF b[1] < 128 THEN <<b[1]>> \o Utf8Decode(SubSeq(b, 2, n))
           ELSE IF b[1] \in 192..223 /\ n >= 2
           THEN <<(b[1] - 192) * 64 + (b[2] - 128)>> \o Utf8Decode(SubSeq(b, 3, n))
           ELSE IF b[1] \in 224..239 /\ n >= 3
           THEN <<(b[1] - 224) * 4096 + (b[2] - 128) * 64 + (b[3] - 128)>>
                \o Utf8Decode(SubSeq(b, 4, n))
           ELSE IF b[1] \in 240..247 /\ n >= 4
           THEN <<(b[1] - 240) * 262144 + (b[2] - 128) * 4096
                  + (b[3] - 128) * 64 + (b[4] - 128)>>
                \o Utf8Decode(SubSeq(b, 5, n))
           ELSE <<65533>> \o Utf8Decode(SubSeq(b, 2, n))

\* The bytes EF BB BF, the UTF-8 form of U+FEFF.
Utf8Bom == <<239, 187, 191>>

\* new TextDecoder().decode(bytes): the decoder is made without
\* { ignoreBOM: true }, so it takes a byte order mark at the start of the
\* bytes off before it decodes.
TextDecoderDecode(bytes) ==
  IF Len(bytes) >= 3 /\ SubSeq(bytes, 1, 3) = Utf8Bom
  THEN Utf8Decode(SubSeq(bytes, 4, Len(bytes)))
  ELSE Utf8Decode(bytes)

\* utf8ToBase64: the binary string has one character per byte.
utf8ToBase64(str) == btoa(TextEncoderEncode(str))

\* base64ToUtf8
base64ToUtf8(base64) == TextDecoderDecode(atob(RemoveNewlines(base64)))

----------------------------------------------------------------------------
(* Mappings { id: record } *)

\* A field that a record does not have (undefined).
Absent == 0

Range(s) == {s[i] : i \in 1..Len(s)}

\* Object.keys(m), as a set.
Keys(m) == {m[i].id : i \in 1..Len(m)}

\* m[id], for id in Keys(m).
Get(m, id) == m[CHOOSE i \in 1..Len(m) : m[i].id = id]

\* m[id] = rec: in place when the key exists, appended otherwise.
Put(m, id, rec) ==
  IF id \in Keys(m)
  THEN [i \in 1..Len(m) |-> IF m[i].id = id THEN rec ELSE m[i]]
  ELSE Append(m, rec)

\* delete m[id]
RECURSIVE Delete(_, _)
Delete(m, id) ==
  IF m = <<>> THEN <<>>
  ELSE IF Head(m).id = id THEN Delete(Tail(m), id)
  ELSE <<Head(m)>> \o Delete(Tail(m), id)

----------------------------------------------------------------------------
(* Texts, tags, responses and errors *)

\* JSON.stringify(v): the text of a JSON document with value v.
JSONstringify(v) == <<"json", v>>
\* A text JSON.parse throws on.
CorruptText == <<"corrupt">>
Parses(text) == Len(text) = 2 /\ text[1] = "json"
\* JSON.parse(text), for a text that parses.
JSONparse(text) == text[2]

\* localStorage.getItem of a key that was never set (null).
NoItem == <<>>

\* No version tag (null).
NoSha == <<>>
\* The tag of a stored file: the hash of its content.
BlobSha(text) == <<"blob", text>>

\* The Error objects the code throws: the fixed part of the message, and the
\* status code where the message carries one.
NoErr == [msg |-> "", status |-> 0]
Err(msg, status) == [msg |-> msg, status |-> status]
MsgNoName == "Skriv inn et versjonsnavn"
MsgNoToken == "Ingen GitHub-token satt"
MsgFetch == "Kunne ikke hente fil: <status>"
MsgAuth == "Ugyldig eller utløpt token. Oppdater token i innstillinger."
MsgConflict == "Konflikt - filen ble endret av andre. Prøv igjen."
MsgStale == "Filen ble endret siden sist. Last inn siden på nytt og prøv igjen."
MsgApi == "GitHub API feil: <status>"
MsgNotFound == "Versjon ikke funnet: <id>"
MsgNetwork == "TypeError: Failed to fetch"
MsgSyntax == "SyntaxError"

\* An HTTP response (kind "http"), or the rejection of fetch (kind "neterr").
Response(status, sha, text, message) ==
  [kind |-> "http", status |-> status, sha |-> sha, text |-> text,
   message |-> message]
NetworkError ==
  [kind |-> "neterr", status |-> 0, sha |-> NoSha, text |-> <<>>, message |-> ""]
NoResp ==
  [kind |-> "none", status |-> 0, sha |-> NoSha, text |-> <<>>, message |-> ""]

\* resp.ok
Ok(resp) == resp.kind = "http" /\ resp.status \in 200..299

----------------------------------------------------------------------------
(* The remote file store client *)

\* getFileFromGitHub, after the response arrived: null, {sha, content}, or
\* a thrown error.
GetFileThrowsOnError(resp) ==
  IF resp.kind = "neterr"
  THEN [out |-> "throw", sha |-> NoSha, content |-> <<>>, err |-> Err(MsgNetwork, 0)]
  ELSE IF resp.status = 404
  THEN [out |-> "null", sha |-> NoSha, content |-> <<>>, err |-> NoErr]
  ELSE IF ~Ok(resp)
  THEN [out |-> "throw", sha |-> NoSha, content |-> <<>>,
        err |-> Err(MsgFetch, resp.status)]
  ELSE [out |-> "file", sha |-> resp.sha, content |-> resp.text, err |-> NoErr]

\* The same, with every failure of the request taken for a missing file.
GetFileNullOnError(resp) ==
  IF resp.kind = "http" /\ Ok(resp)
  THEN [out |-> "file", sha |-> resp.sha, content |-> resp.text, err |-> NoErr]
  ELSE [out |-> "null", sha |-> NoSha, content |-> <<>>, err |-> NoErr]

getFileFromGitHub(resp) == GetFileThrowsOnError(resp)

\* getFileSha of github-save.js, after the response arrived: null, the
\* sha, or a thrown error.
getFileSha(resp) ==
  IF resp.kind = "neterr"
  THEN [out |-> "throw", sha |-> NoSha, content |-> <<>>, err |-> Err(MsgNetwork, 0)]
  ELSE IF resp.status = 404
  THEN [out |-> "null", sha |-> NoSha, content |-> <<>>, err |-> NoErr]
  ELSE IF ~Ok(resp)
  THEN [out |-> "throw", sha |-> NoSha, content |-> <<>>,
        err |-> Err(MsgFetch, resp.status)]
  ELSE [out |-> "file", sha |-> resp.sha, content |-> <<>>, err |-> NoErr]

\* A request body that never carries the tag.
PutBodyWithoutSha(content, sha) == [content |-> content, sha |-> NoSha]

\* The request body saveFileToGitHub builds: sha only when it is truthy.
PutBody(content, sha) ==
  [content |-> content, sha |-> IF sha # NoSha THEN sha ELSE NoSha]

\* saveFileToGitHub with 422 reported like 409.
SaveFileMergesConflicts(resp) ==
  IF resp.kind = "neterr" THEN Err(MsgNetwork, 0)
  ELSE IF ~Ok(resp)
  THEN CASE resp.status = 401 -> Err(MsgAuth, 0)
         [] resp.status \in {409, 422} -> Err(MsgConflict, 0)
         [] OTHER -> IF resp.message # "" THEN Err(resp.message, 0)
                     ELSE Err(MsgApi, resp.status)
  ELSE NoErr

\* saveFileToGitHub returning on every response.
SaveFileNeverThrows(resp) == NoErr

\* saveFileToGitHub, after the response arrived: the error it throws, or
\* NoErr when it returns.
saveFileToGitHub(resp) ==
  IF resp.kind = "neterr" THEN Err(MsgNetwork, 0)
  ELSE IF ~Ok(resp)
  THEN CASE resp.status = 401 -> Err(MsgAuth, 0)
         [] resp.status = 409 -> Err(MsgConflict, 0)
         [] resp.status = 422 -> Err(MsgStale, 0)
         [] OTHER -> IF resp.message # "" THEN Err(resp.message, 0)
                     ELSE Err(MsgApi, resp.status)
  ELSE NoErr

\* saveToGitHub of github-save.js, after the response to its PUT arrived:
\* the error it throws, or NoErr when it returns { success: true, ... }.
saveToGitHub(resp) ==
  IF resp.kind = "neterr" THEN Err(MsgNetwork, 0)
  ELSE IF ~Ok(resp)
  THEN CASE resp.status = 401 -> Err(MsgAuth, 0)
         [] resp.status = 409 -> Err(MsgConflict, 0)
         [] resp.status = 422 -> Err(MsgStale, 0)
         [] OTHER -> IF resp.message # "" THEN Err(resp.message, 0)
                     ELSE Err(MsgApi, resp.status)
  ELSE NoErr

----------------------------------------------------------------------------
(* The version store's data operations *)

\* data.versions || {}
DocVersions(data) ==
  IF "versions" \in DOMAIN data THEN data.versions ELSE <<>>

\* _getLatestFromGitHub: the values it gives _versions and _sha, or the
\* error that passes through it.
LatestKeepsTag(file) ==
  IF file.out = "throw"
  THEN [out |-> "throw", versions |-> <<>>, sha |-> NoSha, err |-> file.err]
  ELSE IF file.out = "file"
  THEN IF Parses(file.content)
       THEN [out |-> "ok", versions |-> DocVersions(JSONparse(file.content)),
             sha |-> file.sha, err |-> NoErr]
       ELSE [out |-> "throw", versions |-> <<>>, sha |-> NoSha,
             err |-> Err(MsgSyntax, 0)]
  ELSE [out |-> "ok", versions |-> <<>>, sha |-> NoSha, err |-> NoErr]

\* The same, without the assignment _sha = file.sha.
LatestDropsTag(file) == [LatestKeepsTag(file) EXCEPT !.sha = NoSha]

\* The same, without the assignment _versions = data.versions || {}.
LatestDropsVersions(file) == [LatestKeepsTag(file) EXCEPT !.versions = <<>>]

_getLatestFromGitHub(file) == LatestKeepsTag(file)

\* What an operation does between its two awaits: the error it throws (NoErr
\* when none), the mapping _versions holds afterwards, and the value the
\* operation returns at its end.

\* saveVersion: the id it derives.
SaveSlugUnique(versions, name) == uniqueSlug(slugify(name), Keys(versions))

\* The same, without uniqueSlug.
SaveSlugAsIs(versions, name) == slugify(name)

SaveSlug(versions, name) == SaveSlugUnique(versions, name)

\* saveVersion: _versions[slug] = {...}.
SaveMutation(versions, name, now, config) ==
  LET slug == SaveSlug(versions, name)
  IN  [err |-> NoErr,
       versions |-> Put(versions, slug,
                        [name |-> name, id |-> slug, createdAt |-> now,
                         updatedAt |-> now, config |-> config]),
       result |-> slug]

\* updateVersion that creates the record it does not find.
UpdateCreatesWhenMissing(versions, id, now, config) ==
  [err |-> NoErr,
   versions |-> Put(versions, id,
                    IF id \in Keys(versions)
                    THEN [Get(versions, id) EXCEPT !.config = config,
                                                  !.updatedAt = now]
                    ELSE [name |-> id, id |-> id, createdAt |-> now,
                          updatedAt |-> now, config |-> config]),
   result |-> <<>>]

\* updateVersion that stamps createdAt as well.
UpdateResetsCreatedAt(versions, id, now, config) ==
  IF id \notin Keys(versions)
  THEN [err |-> Err(MsgNotFound, 0), versions |-> versions, result |-> <<>>]
  ELSE [err |-> NoErr,
        versions |-> Put(versions, id,
                         [Get(versions, id) EXCEPT !.config = config,
                                                   !.updatedAt = now,
                                                   !.createdAt = now]),
        result |-> <<>>]

\* updateVersion: the test of _versions[id], then the two assignments.
UpdateMutation(versions, id, now, config) ==
  IF id \notin Keys(versions)
  THEN [err |-> Err(MsgNotFound, 0), versions |-> versions, result |-> <<>>]
  ELSE [err |-> NoErr,
        versions |-> Put(versions, id,
                         [Get(versions, id) EXCEPT !.config = config,
                                                   !.updatedAt = now]),
        result |-> <<>>]

\* deleteVersion with a test of _versions[id] like updateVersion's.
DeleteThrowsWhenMissing(versions, id) ==
  IF id \notin Keys(versions)
  THEN [err |-> Err(MsgNotFound, 0), versions |-> versions, result |-> <<>>]
  ELSE [err |-> NoErr, versions |-> Delete(versions, id), result |-> <<>>]

\* deleteVersion: delete _versions[id].
DeleteMutation(versions, id) ==
  [err |-> NoErr, versions |-> Delete(versions, id), result |-> <<>>]

\* The text saveFileToGitHub is given: JSON.stringify({ versions: _versions }, null, 2).
FileContent(versions) == JSONstringify([versions |-> versions])

\* new Date(v.updatedAt || v.createdAt)
RecencyKey(v) == IF v.updatedAt # Absent THEN v.updatedAt ELSE v.createdAt

\* The comparator with its operands exchanged.
CompareOldestFirst(a, b) == RecencyKey(a) - RecencyKey(b)

\* The comparator of _renderList: negative when a goes before b.
CompareRecency(a, b) == RecencyKey(b) - RecencyKey(a)

\* Array.prototype.sort with that comparator (a stable sort): x goes after
\* every element that does not compare greater than it.
RECURSIVE InsertSorted(_, _)
InsertSorted(sorted, x) ==
  IF sorted = <<>> THEN <<x>>
  ELSE IF CompareRecency(Head(sorted), x) <= 0
  THEN <<Head(sorted)>> \o InsertSorted(Tail(sorted), x)
  ELSE <<x>> \o sorted

RECURSIVE SortByRecency(_)
SortByRecency(s) ==
  IF s = <<>> THEN <<>>
  ELSE InsertSorted(SortByRecency(SubSeq(s, 1, Len(s) - 1)), s[Len(s)])

\* _renderList: the records in the order of the version-item elements.
_renderList(versions) == SortByRecency(versions)

\* loadVersions without the else branch that reads the cache.
LoadIgnoresCache(resp, cached, versions0, loaded0) ==
  LET fetchedOk == Ok(resp) /\ Parses(resp.text)
      v1 == IF fetchedOk THEN DocVersions(JSONparse(resp.text)) ELSE versions0
      l1 == fetchedOk \/ loaded0
  IN  IF l1
      THEN [versions |-> v1, loaded |-> TRUE, store |-> JSONstringify(v1)]
      ELSE [versions |-> v1, loaded |-> FALSE, store |-> NoItem]

\* loadVersions, after the fetch of versions.json settled: the values it
\* gives _versions and _loaded, and the text it stores in the cache (NoItem
\* when it stores nothing).  versions0 and loaded0 are the module's values
\* before the call.
loadVersions(resp, cached, versions0, loaded0) ==
  LET fetchedOk == Ok(resp) /\ Parses(resp.text)
      v1 == IF fetchedOk THEN DocVersions(JSONparse(resp.text)) ELSE versions0
      l1 == fetchedOk \/ loaded0
  IN  IF l1
      THEN [versions |-> v1, loaded |-> TRUE, store |-> JSONstringify(v1)]
      ELSE IF cached # NoItem /\ Parses(cached)
      THEN [versions |-> JSONparse(cached), loaded |-> TRUE, store |-> NoItem]
      ELSE [versions |-> v1, loaded |-> FALSE, store |-> NoItem]

----------------------------------------------------------------------------
(* State *)

\* Two pages of one chart type, open in one browser profile.
Pages == {"p1", "p2"}
\* Handler invocations that can be pending at the same time.
Ops == {"o1", "o2"}

\* What the user types in versionNameInput.
Names == {<<"T">>, <<" ">>}
\* What getCurrentConfig() returns on a page.
Configs(p) == IF p = "p1" THEN {"cfgA"} ELSE {"cfgB"}

\* Values of localStorage.github_pat: none, one GitHub accepts, one it rejects.
GoodToken == "ghp_valid"
TokenValues == {"", GoodToken, "ghp_expired"}

\* The two embed scripts: embed.js and the other copy of it.
Variants == {"embed", "part_000"}
\* No message event.
NoMessage == [source |-> "", type |-> "", height |-> 0]
\* The host page before its embed script ran.
NotEmbedded ==
  [variant |-> "", ran |-> FALSE, height |-> <<>>, last |-> NoMessage]

\* What the user types in githubTokenInput, in pieces: blanks and a token.
TokenInputs ==
  {<<>>, <<" ">>, <<GoodToken>>, <<" ", GoodToken, " ">>, <<"ghp_expired">>}

\* What getCSVContent() returns, as its lines: the empty string, a header
\* alone, a header and a line break, a header and a row.
CsvContents ==
  {<<"">>, <<"dato,pris">>, <<"dato,pris", "">>, <<"dato,pris", "2024,1">>}

\* The tokenStatus element.
TokenStatus(colour, text) == [colour |-> colour, text |-> text]
\* A saveTokenBtn handler: where it is, the token it verifies, the response.
VerifySlots == {"v1", "v2"}
IdleVerify == [pc |-> "idle", token |-> "", resp |-> NoResp]

VARIABLES
  remote,     \* the store file in the repository: [exists, text]
  token,      \* localStorage['github_pat'], '' when not set
  cache,      \* localStorage['versions-cache-<chartType>'], NoItem when not set
  _versions,  \* per page: the module's mapping
  _sha,       \* per page: the module's tag
  _loaded,    \* per page
  page,       \* per page: where init() is, and the response it waits for
  listDom,    \* per page: the data-id of the rendered version-item elements
  status,     \* per page: the versionStatus element
  op,         \* per pending handler: its position and its locals
  clock,      \* the millisecond clock
  starts,     \* operations started so far
  call,       \* the last call of a client function on a response, with its outcome
  unhandled,  \* per page: the error that left a click handler uncaught, NoErr when none
  frames,     \* the host page: the embed script it loads, whether it ran, the
              \* height of each iframe, the last message event
  csvSave,    \* the admin page: the githubSaveBtn handler, its button and the
              \* status element
  settings,   \* the admin page: the tokenStatus element and the pending
              \* saveTokenBtn handlers
  disabled    \* per page: the buttons of the versions panel that are disabled

vars == <<remote, token, cache, _versions, _sha, _loaded, page, listDom, status,
          op, clock, starts, call, unhandled, frames, csvSave, settings, disabled>>

NoBody == [content |-> <<>>, sha |-> NoSha]

AbsentFile == [exists |-> FALSE, text |-> <<>>]
StoredFile(text) == [exists |-> TRUE, text |-> text]

\* A handler invocation: where it is (pc), the page it runs on, its
\* arguments and locals (token, the responses get and put, the mapping base
\* that _getLatestFromGitHub assigned, the request body, the id result).
\* For the properties it also records the store file as GitHub held it when
\* it answered the GET (read) and just before it handled the PUT (seen), and
\* whether another PUT was accepted in between (overtaken).  attached says
\* that the button the handler holds (btn) is still in the document.
IdleOp ==
  [pc |-> "idle", page |-> "p1", kind |-> "none", arg |-> <<>>, token |-> "",
   get |-> NoResp, put |-> NoResp, base |-> <<>>, body |-> NoBody,
   result |-> <<>>, read |-> AbsentFile, seen |-> AbsentFile,
   overtaken |-> FALSE, attached |-> FALSE]

\* The page whose handler runs operation o.
PageOf(o) == op[o].page

NoStatus == [type |-> "", msg |-> "", code |-> 0]
ErrorStatus(err) == [type |-> "error", msg |-> err.msg, code |-> err.status]
SuccessStatus(kind) ==
  [type |-> "success",
   msg |-> CASE kind = "save" -> "Versjon <name> lagret! (<slug>)"
             [] kind = "update" -> "Versjon <name> oppdatert!"
             [] kind = "delete" -> "Versjon <name> slettet",
   code |-> 0]

\* A page without github-save.js.
NoCsvSave ==
  [pc |-> "none", statusElement |-> FALSE, token |-> "", content |-> <<>>,
   get |-> NoResp, put |-> NoResp, body |-> NoBody, disabled |-> FALSE,
   status |-> NoStatus, view |-> ""]

NoCall == [fn |-> "", resp |-> NoResp, threw |-> NoErr, out |-> "", sha |-> NoSha]

\* A record written by an earlier release: no updatedAt.
LegacyRecord ==
  [name |-> <<"T">>, id |-> <<"t">>, createdAt |-> 1, updatedAt |-> Absent,
   config |-> "cfg0"]

\* The tag GitHub holds for the store file.
FileSha(file) == IF file.exists THEN BlobSha(file.text) ELSE NoSha
RemoteSha == FileSha(remote)
\* The mapping in the store file.
FileVersions(file) ==
  IF file.exists THEN DocVersions(JSONparse(file.text)) ELSE <<>>
RemoteVersions == FileVersions(remote)

\* The store file and the cache when the pages open: no file yet, and a
\* cache that does not parse; a file with one record, and no cache; a file
\* whose only record was deleted from another browser, and the cache of an
\* earlier visit.
FirstStates ==
  { <<AbsentFile, CorruptText>>,
    <<StoredFile(FileContent(<<LegacyRecord>>)), NoItem>>,
    <<StoredFile(FileContent(<<>>)), JSONstringify(<<LegacyRecord>>)>> }

Init ==
  /\ \E first \in FirstStates : remote = first[1] /\ cache = first[2]
  /\ token \in TokenValues
  /\ _versions = [p \in Pages |-> <<>>]
  /\ _sha = [p \in Pages |-> NoSha]
  /\ _loaded = [p \in Pages |-> FALSE]
  /\ page = [p \in Pages |-> [pc |-> "loading", resp |-> NoResp]]
  /\ listDom = [p \in Pages |-> <<>>]
  /\ status = [p \in Pages |-> NoStatus]
  /\ op = [o \in Ops |-> IdleOp]
  /\ clock = 1
  /\ starts = 0
  /\ call = NoCall
  /\ unhandled = [p \in Pages |-> NoErr]
  /\ frames = NotEmbedded
  /\ csvSave = NoCsvSave
  /\ settings = [tokenStatus |-> TokenStatus("", ""),
                 verify |-> [v \in VerifySlots |-> IdleVerify]]
  /\ disabled = [p \in Pages |-> {}]

Ids(records) == [i \in 1..Len(records) |-> records[i].id]

----------------------------------------------------------------------------
(* The servers *)

\* GitHub Pages answers GET versions.json.
PagesResponses ==
  { IF remote.exists THEN Response(200, NoSha, remote.text, "")
    ELSE Response(404, NoSha, <<>>, ""),
    Response(200, NoSha, CorruptText, ""),
    NetworkError }

\* Answers that do not depend on the file: the API fails.
Faults == { Response(500, NoSha, <<>>, "") }

\* The contents API answers GET contents/<path>.
GetResponses(tok) ==
  IF tok # GoodToken THEN {Response(401, NoSha, <<>>, "Bad credentials")}
  ELSE { IF remote.exists THEN Response(200, RemoteSha, remote.text, "")
         ELSE Response(404, NoSha, <<>>, "Not Found") } \cup Faults

\* The contents API answers PUT contents/<path>: the response and the file
\* afterwards.  The file is replaced only when the tag sent is the tag of the
\* file, and created only when there is no file and no tag was sent.
PutResults(tok, body) ==
  IF tok # GoodToken
  THEN {[resp |-> Response(401, NoSha, <<>>, "Bad credentials"), file |-> remote]}
  ELSE {[resp |-> f, file |-> remote] : f \in Faults} \cup
       { IF remote.exists
         THEN IF body.sha = NoSha
              THEN [resp |-> Response(422, NoSha, <<>>, "sha wasn't supplied"),
                    file |-> remote]
              ELSE IF body.sha # RemoteSha
              THEN [resp |-> Response(409, NoSha, <<>>, "does not match"),
                    file |-> remote]
              ELSE [resp |-> Response(200, BlobSha(body.content), <<>>, ""),
                    file |-> StoredFile(body.content)]
         ELSE IF body.sha = NoSha
              THEN [resp |-> Response(201, BlobSha(body.content), <<>>, ""),
                    file |-> StoredFile(body.content)]
              ELSE [resp |-> Response(404, NoSha, <<>>, "Not Found"),
                    file |-> remote] }

----------------------------------------------------------------------------
(* Page load *)

\* GitHub Pages answers the fetch of versions.json that init() issued.
ServeVersionsJson(p) ==
  /\ page[p].pc = "loading"
  /\ \E r \in PagesResponses : page' = [page EXCEPT ![p] = [pc |-> "fetched", resp |-> r]]
  /\ UNCHANGED <<remote, token, cache, _versions, _sha, _loaded, listDom,
                 status, op, clock, starts, call, unhandled, frames, csvSave, settings, disabled>>

\* init() resumes: the rest of loadVersions, then renderVersionsPanel.
InitResume(p) ==
  /\ page[p].pc = "fetched"
  /\ LET r == loadVersions(page[p].resp, cache, _versions[p], _loaded[p])
     IN  /\ _versions' = [_versions EXCEPT ![p] = r.versions]
         /\ _loaded' = [_loaded EXCEPT ![p] = r.loaded]
         /\ cache' = IF r.store # NoItem THEN r.store ELSE cache
         /\ listDom' = [listDom EXCEPT ![p] = Ids(_renderList(r.versions))]
  /\ page' = [page EXCEPT ![p] = [pc |-> "ready", resp |-> NoResp]]
  /\ disabled' = [disabled EXCEPT ![p] = {}]
  /\ UNCHANGED <<remote, token, _sha, status, op, clock, starts, call,
                 unhandled, frames, csvSave, settings>>

----------------------------------------------------------------------------
(* The mutating operations, each with the click handler that calls it *)

InFlight(o) == op[o].pc # "idle"
IsConflict(msg) == msg \in {MsgConflict, MsgStale}

\* The slot a new handler invocation takes.
FreeSlot == IF ~InFlight("o1") THEN "o1" ELSE "o2"

\* A click handler whose try has no catch: the error leaves the handler and
\* the status element stays as it was.
HandlerRethrows(kind, err, shown) == [status |-> shown, unhandled |-> err]

\* catch (e) { this._showStatus('Feil: ' + e.message, 'error') } of the
\* click handler of the save, update or delete button, for an error thrown
\* in its try: what the status element shows, and the error that leaves the
\* handler.
HandlerCatch(kind, err, shown) ==
  [status |-> ErrorStatus(err), unhandled |-> NoErr]

\* err is thrown in the try of the handler that page p runs for kind.
Throw(p, kind, err) ==
  LET h == HandlerCatch(kind, err, status[p])
  IN  /\ status' = [status EXCEPT ![p] = h.status]
      /\ unhandled' = [unhandled EXCEPT ![p] = h.unhandled]

\* The button a handler belongs to: saveNewVersionBtn, or the update or
\* delete button of the version-item with data-id arg.
ButtonOf(kind, arg) == IF kind = "save" THEN <<"save", <<>>>> ELSE <<kind, arg>>

\* The end of a click handler: the finally of the save and of the update
\* handler sets btn.disabled = false, which shows when btn is still in the
\* document; the delete handler has no finally.
HandlerFinally(kind, arg, attached, buttons) ==
  IF kind \in {"save", "update"} /\ attached
  THEN buttons \ {ButtonOf(kind, arg)}
  ELSE buttons

\* A token check that lets the empty token pass.
AnyTokenPasses(tok) == TRUE

\* if (!token), negated: the token check of saveVersion, updateVersion,
\* deleteVersion and the githubSaveBtn handler.
HasToken(tok) == tok # ""

\* The code from the click to the first await: getToken(), the token check,
\* and the GET that getFileFromGitHub issues.  A missing token is thrown to
\* the handler, which shows it.
Begin(o, p, kind, arg) ==
  /\ page[p].pc = "ready"
  /\ o = FreeSlot /\ ~InFlight(o)
  /\ starts < MaxStarts
  /\ starts' = starts + 1
  /\ ButtonOf(kind, arg) \notin disabled[p]
  /\ IF ~HasToken(token)
     THEN /\ Throw(p, kind, Err(MsgNoToken, 0))
          /\ op' = op
          /\ disabled' = [disabled EXCEPT ![p] =
               HandlerFinally(kind, arg, TRUE, @ \cup {ButtonOf(kind, arg)})]
     ELSE /\ op' = [op EXCEPT ![o] =
                      [IdleOp EXCEPT !.pc = "getSent", !.page = p, !.kind = kind,
                                     !.arg = arg, !.token = token,
                                     !.attached = TRUE]]
          /\ disabled' = [disabled EXCEPT ![p] = @ \cup {ButtonOf(kind, arg)}]
          /\ UNCHANGED <<status, unhandled>>
  /\ UNCHANGED <<remote, token, cache, _versions, _sha, _loaded, page, listDom,
                 clock, call, frames, csvSave, settings>>

\* String.prototype.trim, for the blank as white space.
RECURSIVE trimStart(_)
trimStart(s) == IF s # <<>> /\ Head(s) = " " THEN trimStart(Tail(s)) ELSE s
RECURSIVE trimEnd(_)
trimEnd(s) ==
  IF s # <<>> /\ s[Len(s)] = " " THEN trimEnd(SubSeq(s, 1, Len(s) - 1)) ELSE s
trim(s) == trimEnd(trimStart(s))

\* A save handler without the test of the name.
AnyNameAccepted(name) == TRUE

\* The save handler's test: if (!name) { ...; return }
NameAccepted(name) == name # <<>>

\* The save handler shows the validation error and returns.
RejectName(p) ==
  /\ page[p].pc = "ready"
  /\ starts < MaxStarts
  /\ starts' = starts + 1
  /\ status' = [status EXCEPT ![p] = ErrorStatus(Err(MsgNoName, 0))]
  /\ UNCHANGED <<remote, token, cache, _versions, _sha, _loaded, page, listDom,
                 op, clock, call, unhandled, frames, csvSave, settings, disabled>>

\* The save button is disabled while its handler runs.
saveVersion(o) == \E p \in Pages :
  /\ \A q \in Ops : InFlight(q) /\ PageOf(q) = p => op[q].kind # "save"
  /\ \E typed \in Names :
       LET name == trim(typed)
       IN  IF NameAccepted(name) THEN Begin(o, p, "save", name)
           ELSE RejectName(p)

\* The update and delete buttons belong to a rendered item whose id is in the
\* mapping.
updateVersion(o) == \E p \in Pages :
  \E id \in Range(listDom[p]) \cap Keys(_versions[p]) : Begin(o, p, "update", id)

deleteVersion(o) == \E p \in Pages :
  \E id \in Range(listDom[p]) \cap Keys(_versions[p]) : Begin(o, p, "delete", id)

\* GitHub answers the GET.
GitHubGet(o) ==
  /\ op[o].pc = "getSent"
  /\ \E r \in GetResponses(op[o].token) :
       op' = [op EXCEPT ![o].pc = "getDone", ![o].get = r, ![o].read = remote]
  /\ UNCHANGED <<remote, token, cache, _versions, _sha, _loaded, page, listDom,
                 status, clock, starts, call, unhandled, frames, csvSave, settings, disabled>>

\* The operation of a handler invocation, between its two awaits.
Mutation(kind, arg, versions, now, config) ==
  CASE kind = "save" -> SaveMutation(versions, arg, now, config)
    [] kind = "update" -> UpdateMutation(versions, arg, now, config)
    [] kind = "delete" -> DeleteMutation(versions, arg)

\* new Date(): the clock has advanced since it was last read.
ClockReadings == {clock + 1}

\* The operation resumes with the GET's response: _getLatestFromGitHub
\* assigns _versions and _sha, the operation changes _versions and issues
\* the PUT with the text of _versions and with _sha.  What it throws goes to
\* the handler, which shows it.
AfterFetch(o) ==
  /\ op[o].pc = "getDone"
  /\ LET p == PageOf(o)
         latest == _getLatestFromGitHub(getFileFromGitHub(op[o].get))
     IN  IF latest.out = "throw"
         THEN /\ op' = [op EXCEPT ![o] = IdleOp]
              /\ Throw(p, op[o].kind, latest.err)
              /\ disabled' = [disabled EXCEPT ![p] =
                   HandlerFinally(op[o].kind, op[o].arg, op[o].attached, @)]
              /\ UNCHANGED <<_versions, _sha, clock>>
         ELSE \E now \in ClockReadings, config \in Configs(p) :
                LET m == Mutation(op[o].kind, op[o].arg, latest.versions, now, config)
                IN  /\ _sha' = [_sha EXCEPT ![p] = latest.sha]
                    /\ _versions' = [_versions EXCEPT ![p] = m.versions]
                    /\ clock' = IF op[o].kind = "delete" THEN clock ELSE now
                    /\ IF m.err # NoErr
                       THEN /\ op' = [op EXCEPT ![o] = IdleOp]
                            /\ Throw(p, op[o].kind, m.err)
                            /\ disabled' = [disabled EXCEPT ![p] =
                                 HandlerFinally(op[o].kind, op[o].arg,
                                                op[o].attached, @)]
                       ELSE /\ op' = [op EXCEPT ![o].pc = "putSent",
                                                ![o].base = latest.versions,
                                                ![o].result = m.result,
                                                ![o].body =
                                                  PutBody(FileContent(m.versions),
                                                          latest.sha)]
                            /\ UNCHANGED <<status, unhandled, disabled>>
  /\ UNCHANGED <<remote, token, cache, _loaded, page, listDom, starts, call,
                 frames, csvSave, settings>>

\* GitHub answers the PUT.
GitHubPut(o) ==
  /\ op[o].pc = "putSent"
  /\ \E r \in PutResults(op[o].token, op[o].body) :
       /\ remote' = r.file
       /\ op' = [q \in Ops |->
                   IF q = o
                   THEN [op[o] EXCEPT !.pc = "putDone", !.put = r.resp,
                                      !.seen = remote]
                   ELSE IF Ok(r.resp) /\ op[q].pc \in {"getDone", "putSent"}
                   THEN [op[q] EXCEPT !.overtaken = TRUE]
                   ELSE op[q]]
  /\ UNCHANGED <<token, cache, _versions, _sha, _loaded, page, listDom, status,
                 clock, starts, call, unhandled, frames, csvSave, settings, disabled>>

\* The operation resumes with the PUT's response: saveFileToGitHub throws or
\* returns, then the cache is set from _versions and the list is rendered
\* (container.innerHTML = ...: the buttons of the list are new ones, and only
\* the save button keeps its state); the handler shows the outcome.
AfterWriteOnce(o) ==
  /\ op[o].pc = "putDone"
  /\ LET p == PageOf(o)
         err == saveFileToGitHub(op[o].put)
     IN  IF err # NoErr
         THEN /\ Throw(p, op[o].kind, err)
              /\ op' = [op EXCEPT ![o] = IdleOp]
              /\ disabled' = [disabled EXCEPT ![p] =
                   HandlerFinally(op[o].kind, op[o].arg, op[o].attached, @)]
              /\ UNCHANGED <<cache, listDom>>
         ELSE /\ status' = [status EXCEPT ![p] = SuccessStatus(op[o].kind)]
              /\ unhandled' = unhandled
              /\ cache' = JSONstringify(_versions[p])
              /\ listDom' = [listDom EXCEPT ![p] = Ids(_renderList(_versions[p]))]
              /\ op' = [q \in Ops |->
                          IF q = o THEN IdleOp
                          ELSE IF InFlight(q) /\ PageOf(q) = p /\ op[q].kind # "save"
                          THEN [op[q] EXCEPT !.attached = FALSE]
                          ELSE op[q]]
              /\ disabled' = [disabled EXCEPT ![p] =
                   HandlerFinally(op[o].kind, op[o].arg, op[o].kind = "save",
                                  @ \cap {ButtonOf("save", <<>>)})]
  /\ UNCHANGED <<remote, token, _versions, _sha, _loaded, page, clock, starts,
                 call, frames, csvSave, settings>>

\* The same, with a refused write tried again from the fetch.
AfterWriteRetries(o) ==
  IF op[o].pc = "putDone" /\ IsConflict(saveFileToGitHub(op[o].put).msg)
  THEN /\ op' = [op EXCEPT ![o] =
                   [IdleOp EXCEPT !.pc = "getSent", !.page = op[o].page,
                                  !.kind = op[o].kind, !.arg = op[o].arg,
                                  !.token = op[o].token,
                                  !.attached = op[o].attached]]
       /\ UNCHANGED <<remote, token, cache, _versions, _sha, _loaded, page,
                      listDom, status, clock, starts, call, unhandled, frames, csvSave, settings, disabled>>
  ELSE AfterWriteOnce(o)

AfterWrite(o) == AfterWriteOnce(o)

Next ==
  \/ \E p \in Pages : ServeVersionsJson(p)
  \/ \E p \in Pages : InitResume(p)
  \/ \E o \in Ops : saveVersion(o)
  \/ \E o \in Ops : updateVersion(o)
  \/ \E o \in Ops : deleteVersion(o)
  \/ \E o \in Ops : GitHubGet(o)
  \/ \E o \in Ops : AfterFetch(o)
  \/ \E o \in Ops : GitHubPut(o)
  \/ \E o \in Ops : AfterWrite(o)

Spec == Init /\ [][Next]_vars

----------------------------------------------------------------------------
(* The client functions on arbitrary responses *)

HttpStatuses == {200, 201, 400, 401, 403, 404, 409, 422, 429, 500, 502, 503}
SomeText == FileContent(<<LegacyRecord>>)
AnyResponses ==
  { Response(st, sha, text, msg) :
      st \in HttpStatuses, sha \in {NoSha, BlobSha(SomeText)},
      text \in {<<>>, SomeText}, msg \in {"", "Server message"} }
  \cup {NetworkError}

\* getFileFromGitHub is given a response.
CallGetFile ==
  /\ \E r \in AnyResponses :
       LET f == getFileFromGitHub(r)
       IN  call' = [fn |-> "getFileFromGitHub", resp |-> r, threw |-> f.err,
                    out |-> f.out, sha |-> f.sha]
  /\ UNCHANGED <<remote, token, cache, _versions, _sha, _loaded, page, listDom,
                 status, op, clock, starts, unhandled,
                 frames, csvSave, settings, disabled>>

\* saveFileToGitHub is given a response.
CallSaveFile ==
  /\ \E r \in AnyResponses :
       LET e == saveFileToGitHub(r)
       IN  call' = [fn |-> "saveFileToGitHub", resp |-> r, threw |-> e,
                    out |-> IF e = NoErr THEN "return" ELSE "throw",
                    sha |-> IF e = NoErr THEN r.sha ELSE NoSha]
  /\ UNCHANGED <<remote, token, cache, _versions, _sha, _loaded, page, listDom,
                 status, op, clock, starts, unhandled,
                 frames, csvSave, settings, disabled>>

\* getFileSha is given a response.
CallGetFileSha ==
  /\ \E r \in AnyResponses :
       LET f == getFileSha(r)
       IN  call' = [fn |-> "getFileSha", resp |-> r, threw |-> f.err,
                    out |-> f.out, sha |-> f.sha]
  /\ UNCHANGED <<remote, token, cache, _versions, _sha, _loaded, page, listDom,
                 status, op, clock, starts, unhandled,
                 frames, csvSave, settings, disabled>>

\* saveToGitHub is given the response to its PUT.
CallSaveToGitHub ==
  /\ \E r \in AnyResponses :
       LET e == saveToGitHub(r)
       IN  call' = [fn |-> "saveToGitHub", resp |-> r, threw |-> e,
                    out |-> IF e = NoErr THEN "return" ELSE "throw",
                    sha |-> NoSha]
  /\ UNCHANGED <<remote, token, cache, _versions, _sha, _loaded, page, listDom,
                 status, op, clock, starts, unhandled,
                 frames, csvSave, settings, disabled>>

NextHttp == CallGetFile \/ CallSaveFile \/ CallGetFileSha \/ CallSaveToGitHub

SpecHttp == Init /\ [][NextHttp]_vars

----------------------------------------------------------------------------
(* The embed script *)

\* The .grafer-embed containers of the host page; the last has no data-src.
Containers == {"c1", "c2", "c3"}
HasSrc(c) == c # "c3"
\* iframe.contentWindow of the iframe the script puts in container c.
ContentWindow(c) == IF c = "c1" THEN "w1" ELSE IF c = "c2" THEN "w2" ELSE "w3"

\* iframe.style.height at creation, and what the listener adds to the
\* height of a message, in pixels.
DefaultHeight(v) == IF v = "embed" THEN 600 ELSE 400
Buffer(v) == IF v = "embed" THEN 5 ELSE 0

\* Message events: from the window of an iframe, from a frame of another
\* container-less iframe (w3) or from another window; with no data, with a
\* grafer-resize or with another type.
Heights == {0, 350}
Messages ==
  [source : {"w1", "w2", "w3", "top"}, type : {"null", "grafer-resize", "other"},
   height : Heights]

\* A listener that sets the height of every iframe.
ResizedAll(v, height, e) ==
  IF e.type = "grafer-resize"
  THEN [c \in DOMAIN height |-> e.height + Buffer(v)]
  ELSE height

\* The message listener: the heights of the iframes after the event e.
Resized(v, height, e) ==
  IF e.type = "grafer-resize"
  THEN [c \in DOMAIN height |->
          IF ContentWindow(c) = e.source THEN e.height + Buffer(v)
          ELSE height[c]]
  ELSE height

\* The script runs: one iframe for each container with a data-src.
RunScript(v) ==
  /\ ~frames.ran
  /\ frames' = [variant |-> v, ran |-> TRUE,
                 height |-> [c \in {d \in Containers : HasSrc(d)} |->
                               DefaultHeight(v)],
                 last |-> NoMessage]
  /\ UNCHANGED <<remote, token, cache, _versions, _sha, _loaded, page, listDom,
                 status, op, clock, starts, call, unhandled, csvSave, settings,
                 disabled>>

\* The window gets a message event.
OnMessage ==
  /\ frames.ran
  /\ \E e \in Messages :
       frames' = [frames EXCEPT !.height = Resized(frames.variant, @, e),
                                !.last = e]
  /\ UNCHANGED <<remote, token, cache, _versions, _sha, _loaded, page, listDom,
                 status, op, clock, starts, call, unhandled, csvSave, settings,
                 disabled>>

NextEmbed == (\E v \in Variants : RunScript(v)) \/ OnMessage

SpecEmbed == Init /\ [][NextEmbed]_vars

----------------------------------------------------------------------------
(* The text functions on arbitrary arguments *)

\* The strings of at most n characters of the set chars.
RECURSIVE StringsUpTo(_, _)
StringsUpTo(chars, n) ==
  IF n = 0 THEN {<<>>}
  ELSE LET shorter == StringsUpTo(chars, n - 1)
       IN  shorter \cup {<<c>> \o t : c \in chars, t \in shorter}

\* Arguments of uniqueSlug: the candidates, and the ids existingIds holds.
SlugCandidates == {<<"t">>, <<"a">>, <<"t", "-", "2">>}
IdPool ==
  {<<"t">>, <<"a">>} \cup {<<"t", "-">> \o Decimal(n) : n \in 2..MaxSuffix}

\* Arguments of slugify: short names of letters with and without accent,
\* in both cases, a digit, blanks and punctuation; and a name of the manual.
NameChars == {"M", "Ø", "æ", " ", "-", "9"}
MorkName == <<"M", "ø", "r", "k", " ", "1", "6", ":", "9">>
NameInputs == StringsUpTo(NameChars, MaxNameLen) \cup {MorkName}

\* uniqueSlug is called.
CallUniqueSlug ==
  /\ call = NoCall
  /\ \E slug \in SlugCandidates, existingIds \in SUBSET IdPool :
       call' = [fn |-> "uniqueSlug", slug |-> slug, existingIds |-> existingIds,
                out |-> uniqueSlug(slug, existingIds)]
  /\ UNCHANGED <<remote, token, cache, _versions, _sha, _loaded, page, listDom,
                 status, op, clock, starts, unhandled, frames, csvSave, settings, disabled>>

\* slugify is called.
CallSlugify ==
  /\ call = NoCall
  /\ \E name \in NameInputs :
       call' = [fn |-> "slugify", name |-> name, out |-> slugify(name)]
  /\ UNCHANGED <<remote, token, cache, _versions, _sha, _loaded, page, listDom,
                 status, op, clock, starts, unhandled, frames, csvSave, settings, disabled>>

\* Arguments of utf8ToBase64: texts of code points with UTF-8 forms of one
\* to four bytes (A, ø, the euro sign, an emoji) and of U+FEFF.
CodePoints == {65, 248, 8364, 128512, 65279}
TextInputs == StringsUpTo(CodePoints, MaxTextLen)

\* The contents API returns the base64 text broken into lines.
RECURSIVE WrapLines(_)
WrapLines(base64) ==
  IF Len(base64) <= WrapWidth THEN base64 \o <<"\n">>
  ELSE SubSeq(base64, 1, WrapWidth) \o <<"\n">>
       \o WrapLines(SubSeq(base64, WrapWidth + 1, Len(base64)))

\* A text is encoded by utf8ToBase64 and, as it was or broken into lines,
\* decoded by base64ToUtf8.
CallRoundTrip ==
  /\ call = NoCall
  /\ \E str \in TextInputs, wrapped \in BOOLEAN :
       LET base64 == utf8ToBase64(str)
       IN  call' = [fn |-> "base64ToUtf8", str |-> str, base64 |-> base64,
                    wrapped |-> wrapped,
                    out |-> base64ToUtf8(IF wrapped THEN WrapLines(base64)
                                         ELSE base64)]
  /\ UNCHANGED <<remote, token, cache, _versions, _sha, _loaded, page, listDom,
                 status, op, clock, starts, unhandled, frames, csvSave, settings, disabled>>

NextText == CallUniqueSlug \/ CallSlugify \/ CallRoundTrip

SpecText == Init /\ [][NextText]_vars

----------------------------------------------------------------------------
(* The admin page: the settings panel and the save of the CSV file *)

MsgSetupToken == "Sett opp GitHub-token i innstillinger øverst på siden."


\* createSettingsPanel: what tokenStatus shows for the stored token.
createSettingsPanel(tok) ==
  [tokenStatus |-> IF tok # "" THEN TokenStatus("green", "Token lagret: <masked>")
                   ELSE TokenStatus("amber", "Ingen token satt"),
   verify |-> [v \in VerifySlots |-> IdleVerify]]

\* The admin page after initGitHubSave(config) ran: the page does not load
\* the version manager; config.statusElement is given or not.  The file at
\* filePath is not there yet, or holds an earlier CSV.
InitAdmin ==
  /\ remote \in {AbsentFile, StoredFile(<<"csv", <<"dato,pris", "2023,1">>>>)}
  /\ token \in TokenValues
  /\ cache = NoItem
  /\ _versions = [p \in Pages |-> <<>>]
  /\ _sha = [p \in Pages |-> NoSha]
  /\ _loaded = [p \in Pages |-> FALSE]
  /\ page = [p \in Pages |-> [pc |-> "none", resp |-> NoResp]]
  /\ listDom = [p \in Pages |-> <<>>]
  /\ status = [p \in Pages |-> NoStatus]
  /\ op = [o \in Ops |-> IdleOp]
  /\ clock = 1
  /\ starts = 0
  /\ call = NoCall
  /\ unhandled = [p \in Pages |-> NoErr]
  /\ frames = NotEmbedded
  /\ \E given \in BOOLEAN :
       csvSave = [NoCsvSave EXCEPT !.pc = "idle", !.statusElement = given]
  /\ settings = createSettingsPanel(token)
  /\ disabled = [p \in Pages |-> {}]

\* !csv || csv.trim().split('\n').length < 2, negated: csv.trim() drops the
\* line breaks at either end, so the lines that count are those from the
\* first to the last line that is not empty.
HasCsvData(csv) ==
  LET filled == {i \in 1..Len(csv) : csv[i] # ""}
  IN  /\ csv # <<"">>
      /\ \E i, j \in filled : j - i + 1 >= 2

\* if (statusElement) { statusElement.textContent = ...; className = ... }
CsvShow(s, shown) == IF s.statusElement THEN shown ELSE s.status

\* The click on githubSaveBtn, to its first await: the token check, the check
\* of the CSV, then saveToGitHub to the GET of getFileSha.
githubSaveClick ==
  /\ csvSave.pc = "idle" /\ ~csvSave.disabled
  /\ IF ~HasToken(token)
     THEN csvSave' = [csvSave EXCEPT
                       !.status = CsvShow(csvSave, ErrorStatus(Err(MsgSetupToken, 0))),
                       !.view = "githubSettingsPanel"]
     ELSE \E csv \in CsvContents :
            IF ~HasCsvData(csv)
            THEN csvSave' = [csvSave EXCEPT
                              !.status = CsvShow(csvSave, ErrorStatus(Err("Ingen data å lagre. Last opp og prosesser data først.", 0)))]
            ELSE csvSave' = [csvSave EXCEPT
                              !.status = CsvShow(csvSave,
                                [type |-> "info", msg |-> "Lagrer til GitHub...",
                                 code |-> 0]),
                              !.disabled = TRUE, !.pc = "getSent",
                              !.token = token, !.content = <<"csv", csv>>]
  /\ UNCHANGED <<remote, token, cache, _versions, _sha, _loaded, page, listDom,
                 status, op, clock, starts, call, unhandled, frames, settings, disabled>>

\* GitHub answers the GET of getFileSha.
CsvGitHubGet ==
  /\ csvSave.pc = "getSent"
  /\ \E r \in GetResponses(csvSave.token) :
       csvSave' = [csvSave EXCEPT !.pc = "getDone", !.get = r]
  /\ UNCHANGED <<remote, token, cache, _versions, _sha, _loaded, page, listDom,
                 status, op, clock, starts, call, unhandled, frames, settings, disabled>>

\* catch and finally of the githubSaveBtn handler.
CsvCatch(s, err) ==
  [s EXCEPT !.status = CsvShow(s, ErrorStatus(err)), !.disabled = FALSE,
            !.pc = "idle", !.token = "", !.content = <<>>, !.get = NoResp,
            !.put = NoResp, !.body = NoBody]

\* saveToGitHub resumes with the answer to the GET: it throws to the
\* handler, or issues the PUT with the sha it got.
CsvAfterGet ==
  /\ csvSave.pc = "getDone"
  /\ LET got == getFileSha(csvSave.get)
     IN  csvSave' = IF got.out = "throw" THEN CsvCatch(csvSave, got.err)
                    ELSE [csvSave EXCEPT !.pc = "putSent", !.get = NoResp,
                                         !.body = PutBody(csvSave.content, got.sha)]
  /\ UNCHANGED <<remote, token, cache, _versions, _sha, _loaded, page, listDom,
                 status, op, clock, starts, call, unhandled, frames, settings, disabled>>

\* GitHub answers the PUT.
CsvGitHubPut ==
  /\ csvSave.pc = "putSent"
  /\ \E r \in PutResults(csvSave.token, csvSave.body) :
       /\ remote' = r.file
       /\ csvSave' = [csvSave EXCEPT !.pc = "putDone", !.put = r.resp]
  /\ UNCHANGED <<token, cache, _versions, _sha, _loaded, page, listDom,
                 status, op, clock, starts, call, unhandled, frames, settings, disabled>>

\* saveToGitHub resumes with the answer to the PUT: the handler shows the
\* result or the error, and enables the button.
CsvAfterPut ==
  /\ csvSave.pc = "putDone"
  /\ LET err == saveToGitHub(csvSave.put)
     IN  csvSave' =
           IF err # NoErr THEN CsvCatch(csvSave, err)
           ELSE [CsvCatch(csvSave, NoErr) EXCEPT
                   !.status = CsvShow(csvSave,
                     [type |-> "success", msg |-> "Lagret til GitHub!", code |-> 0])]
  /\ UNCHANGED <<remote, token, cache, _versions, _sha, _loaded, page, listDom,
                 status, op, clock, starts, call, unhandled, frames, settings, disabled>>

\* The token of the typed pieces that trim() leaves.
TokenOf(typed) == IF typed = <<>> THEN "" ELSE Head(typed)

\* The click on saveTokenBtn, to its await: the check of the input, then
\* verifyToken to its fetch.
saveTokenClick ==
  /\ csvSave.pc # "none"
  /\ \E typed \in TokenInputs :
       LET tok == TokenOf(trim(typed))
           FreeVerify == IF settings.verify["v1"].pc = "idle" THEN "v1" ELSE "v2"
       IN  IF tok = ""
           THEN settings' = [settings EXCEPT
                              !.tokenStatus = TokenStatus("red", "Skriv inn en token")]
           ELSE /\ settings.verify[FreeVerify].pc = "idle"
                /\ settings' = [settings EXCEPT
                                  !.tokenStatus = TokenStatus("blue", "Verifiserer..."),
                                  !.verify[FreeVerify] =
                                    [pc |-> "sent", token |-> tok, resp |-> NoResp]]
  /\ UNCHANGED <<remote, token, cache, _versions, _sha, _loaded, page, listDom,
                 status, op, clock, starts, call, unhandled, frames, csvSave, disabled>>

\* GitHub answers GET /user: the user of a token it accepts, with a body
\* that parses or not; 401 for any other token; or the request fails.
UserResponses(tok) ==
  IF tok = GoodToken
  THEN {Response(200, NoSha, JSONstringify("login"), ""),
        Response(200, NoSha, CorruptText, ""), NetworkError} \cup Faults
  ELSE {Response(401, NoSha, <<>>, "Bad credentials"), NetworkError}

GitHubUser(v) ==
  /\ settings.verify[v].pc = "sent"
  /\ \E r \in UserResponses(settings.verify[v].token) :
       settings' = [settings EXCEPT !.verify[v].pc = "done", !.verify[v].resp = r]
  /\ UNCHANGED <<remote, token, cache, _versions, _sha, _loaded, page, listDom,
                 status, op, clock, starts, call, unhandled, frames, csvSave, disabled>>

\* verifyToken that returns the login whatever the response says.
VerifyTrustsResponse(resp) ==
  IF resp.kind = "neterr" THEN Err(MsgNetwork, 0) ELSE NoErr

\* verifyToken, after the response arrived: the error it throws, or NoErr
\* when it returns user.login.
verifyToken(resp) ==
  IF resp.kind = "neterr" THEN Err(MsgNetwork, 0)
  ELSE IF ~Ok(resp) THEN Err("Ugyldig token", 0)
  ELSE IF ~Parses(resp.text) THEN Err(MsgSyntax, 0)
  ELSE NoErr

\* The saveTokenBtn handler resumes with the answer: it stores the token
\* (setToken: localStorage.setItem(GITHUB_TOKEN_KEY, token.trim())) and shows
\* the user, or shows the error.
VerifyResume(v) ==
  /\ settings.verify[v].pc = "done"
  /\ LET err == verifyToken(settings.verify[v].resp)
     IN  IF err = NoErr
         THEN /\ token' = TokenOf(trim(<<settings.verify[v].token>>))
              /\ settings' = [settings EXCEPT
                                !.tokenStatus =
                                  TokenStatus("green", "Token lagret for bruker: <login>"),
                                !.verify[v] = IdleVerify]
         ELSE /\ token' = token
              /\ settings' = [settings EXCEPT
                                !.tokenStatus = TokenStatus("red", err.msg),
                                !.verify[v] = IdleVerify]
  /\ UNCHANGED <<remote, cache, _versions, _sha, _loaded, page, listDom,
                 status, op, clock, starts, call, unhandled, frames, csvSave, disabled>>

\* The click on deleteTokenBtn: deleteToken(), then the status.
deleteTokenClick ==
  /\ csvSave.pc # "none"
  /\ token' = ""
  /\ settings' = [settings EXCEPT !.tokenStatus = TokenStatus("amber", "Token slettet")]
  /\ UNCHANGED <<remote, cache, _versions, _sha, _loaded, page, listDom,
                 status, op, clock, starts, call, unhandled, frames, csvSave, disabled>>

NextAdmin ==
  \/ githubSaveClick
  \/ CsvGitHubGet
  \/ CsvAfterGet
  \/ CsvGitHubPut
  \/ CsvAfterPut
  \/ saveTokenClick
  \/ \E v \in VerifySlots : GitHubUser(v)
  \/ \E v \in VerifySlots : VerifyResume(v)
  \/ deleteTokenClick

\* A browser with a chart page or with the admin page open.
SpecPages == (Init \/ InitAdmin) /\ [][Next \/ NextAdmin]_vars

----------------------------------------------------------------------------
(* Properties *)

\* GitHub answered operation o's PUT on the merits: the token was accepted
\* and the API did not fail.
Judged(o) ==
  /\ op[o].pc = "putDone"
  /\ op[o].put.kind = "http"
  /\ op[o].put.status \in {200, 201, 409, 422}

\* What the handler will show for the PUT's response is a Conflict.
ConflictReported(o) == IsConflict(saveFileToGitHub(op[o].put).msg)

FetchSucceeded(resp) ==
  resp.kind = "http" /\ (Ok(resp) \/ resp.status = 404)

\* The mapping and the tag a GET's response carries.
Fetched(resp) == _getLatestFromGitHub(getFileFromGitHub(resp))

\* Operation o takes its step after the GET / after the PUT.
ResumesAfterFetch(o) == op[o].pc = "getDone" /\ op'[o].pc # "getDone"
ResumesAfterWrite(o) == op[o].pc = "putDone" /\ op'[o].pc # "putDone"
PutAnswered(o) == op[o].pc = "putSent" /\ op'[o].pc = "putDone"

\* What C2 asks of one step.
C2_Step ==
  /\ \A p \in Pages :
       _versions'[p] # _versions[p] =>
         \/ page[p].pc = "fetched"
         \/ \E o \in Ops : /\ PageOf(o) = p /\ ResumesAfterFetch(o)
                            /\ FetchSucceeded(op[o].get)
  /\ \A o \in Ops :
       /\ op'[o].pc = "putSent" /\ op[o].pc # "putSent" =>
            /\ op[o].pc = "getDone" /\ FetchSucceeded(op[o].get)
            /\ op'[o].base = Fetched(op[o].get).versions
       /\ ResumesAfterFetch(o) /\ ~FetchSucceeded(op[o].get) =>
            /\ op'[o] = IdleOp
            /\ status'[PageOf(o)] = ErrorStatus(Fetched(op[o].get).err)
            /\ status'[PageOf(o)].type = "error"
            /\ UNCHANGED <<remote, cache, _versions, _sha, listDom>>
  /\ remote' # remote => \E o \in Ops : PutAnswered(o) /\ FetchSucceeded(op[o].get)

\* C2, of every step: in saveVersion, updateVersion and deleteVersion the fetch of the
\* store file completes before the operation changes the in-memory mapping,
\* and an operation whose fetch failed issues no write: it ends with an error
\* shown, the store file and the cache as they were.
C2_FetchBeforeMutation == [][C2_Step]_vars

\* An operation's fetch failed with status 500; the handler shows it and
\* nothing is in flight.
C2_Witness ==
  \E p \in Pages :
    /\ status[p] = ErrorStatus(Err(MsgFetch, 500))
    /\ \A o \in Ops : ~InFlight(o)
    /\ starts > 0

\* C3 as stated: of two concurrent operations that fetched the same state
\* of the store file, at most one write succeeds and the other ends in a
\* reported Conflict.
C3_OneWriteFails ==
  \A o \in Ops :
    Judged(o) /\ op[o].overtaken => ~Ok(op[o].put) /\ ConflictReported(o)

\* C3, amended: a write succeeds only when the store file still is what the
\* operation fetched, so it overwrites no record or change of another
\* writer; a write that finds the file changed since the fetch, or created
\* since the fetch found none, ends in a reported Conflict.  (Two writes of
\* which the first leaves the file as it was both succeed.)
C3_NoLostUpdate ==
  \A o \in Ops :
    Judged(o) =>
      /\ Ok(op[o].put) =>
           op[o].seen = op[o].read /\ FileVersions(op[o].seen) = op[o].base
      /\ op[o].seen # op[o].read => ~Ok(op[o].put) /\ ConflictReported(o)

\* Two operations fetched when there was no file; one created it, and the
\* other's write, sent without a tag, came back 422.
C3_Witness ==
  \E o \in Ops :
    /\ Judged(o) /\ op[o].overtaken
    /\ ~op[o].read.exists /\ op[o].seen.exists
    /\ op[o].body.sha = NoSha
    /\ op[o].put.status = 422

\* The mapping m with one record more, at its end.
ExtendsByOne(m, base) ==
  Len(m) = Len(base) + 1 /\ SubSeq(m, 1, Len(base)) = base

\* What C4 asks of one step.
C4_Step ==
  \A o \in Ops :
    op[o].kind = "save" /\ PutAnswered(o) /\ Ok(op'[o].put) =>
      LET written == FileVersions(remote')
          new == written[Len(written)]
      IN  /\ op[o].result \notin Keys(op[o].base)
          /\ ExtendsByOne(written, op[o].base)
          /\ new.id = op[o].result /\ new.name = op[o].arg
          /\ new.createdAt = new.updatedAt
          /\ Cardinality(Keys(written)) = Len(written)

\* C4, of every step: a successful saveVersion(name) returns an id that was not a key of
\* the mapping it fetched, adds exactly one record under that id, with
\* createdAt equal to updatedAt, and leaves the fetched records as they
\* were; saving a name twice gives two ids and keeps the first record.
C4_SaveAddsOneRecord == [][C4_Step]_vars

\* The name T was saved twice: the store file holds the ids t and t-2, in
\* records written at different times.
C4_Witness ==
  /\ Ids(RemoteVersions) = << <<"t">>, <<"t", "-", "2">> >>
  /\ RemoteVersions[1].name = RemoteVersions[2].name
  /\ RemoteVersions[1].createdAt = RemoteVersions[1].updatedAt
  /\ RemoteVersions[1].createdAt < RemoteVersions[2].createdAt

\* What C5 asks of one step.
C5_Step ==
  \A o \in Ops :
    /\ op[o].kind = "update" /\ ResumesAfterFetch(o)
    /\ FetchSucceeded(op[o].get)
    /\ op[o].arg \notin Keys(Fetched(op[o].get).versions)
    => /\ op'[o] = IdleOp
       /\ status'[PageOf(o)] = ErrorStatus(Err(MsgNotFound, 0))
       /\ UNCHANGED <<remote, cache>>

\* C5, of every step: updateVersion(id) with an id that is not a key of the mapping it
\* fetched fails with NotFound, issues no write and leaves the cache alone.
C5_UpdateNotFound == [][C5_Step]_vars

\* An update ended with NotFound: nothing in flight, and the record the page
\* lists is not in the store file.
C5_Witness ==
  \E p \in Pages :
    /\ status[p] = ErrorStatus(Err(MsgNotFound, 0))
    /\ \A o \in Ops : ~InFlight(o)
    /\ Range(listDom[p]) \ Keys(RemoteVersions) # {}

\* What C6 asks of one step.
C6_Step ==
  \A o \in Ops :
    op[o].kind = "delete" =>
      /\ ResumesAfterFetch(o) /\ FetchSucceeded(op[o].get) =>
           LET fetched == Fetched(op[o].get).versions
           IN  /\ op'[o].pc = "putSent"
               /\ _versions'[PageOf(o)] = Delete(fetched, op[o].arg)
               /\ op'[o].body.content = FileContent(_versions'[PageOf(o)])
               /\ op[o].arg \notin Keys(fetched) =>
                     _versions'[PageOf(o)] = fetched
      /\ PutAnswered(o) /\ Ok(op'[o].put) =>
           /\ op[o].arg \notin Keys(FileVersions(remote'))
           /\ FileVersions(remote') = Delete(op[o].base, op[o].arg)
           /\ Delete(FileVersions(remote'), op[o].arg) = FileVersions(remote')
           /\ op[o].arg \notin Keys(op[o].base) =>
                 FileVersions(remote') = op[o].base
      /\ ResumesAfterWrite(o) /\ Ok(op[o].put) =>
           status'[PageOf(o)].type = "success"

\* C6, of every step: deleteVersion(id) with an id that is not in the store file does not
\* fail, and the mapping in memory and the content it writes are the mapping
\* it fetched; whatever it fetched, the file it wrote does not hold the id,
\* so a second delete of the id writes the same mapping.
C6_DeleteIdempotent == [][C6_Step]_vars

\* A delete of an id that the store file did not hold was written, and the
\* file holds what the operation fetched.
C6_Witness ==
  \E o \in Ops :
    /\ op[o].kind = "delete" /\ op[o].pc = "putDone" /\ Ok(op[o].put)
    /\ op[o].arg \notin Keys(op[o].base)
    /\ RemoteVersions = op[o].base

\* The list holds each record of the mapping once.
SameRecords(list, m) ==
  /\ Len(list) = Len(m)
  /\ \A i \in 1..Len(m) :
       Cardinality({j \in 1..Len(list) : list[j] = m[i]}) = 1

\* C7: the rendered list holds every record of the in-memory mapping once,
\* with the recency key (updatedAt, or createdAt without it) not increasing
\* from first to last; the list a page shows names no id twice.
C7_RenderedByRecency ==
  \A p \in Pages :
    LET list == _renderList(_versions[p])
    IN  /\ SameRecords(list, _versions[p])
        /\ \A i, j \in 1..Len(list) :
             i < j => RecencyKey(list[i]) >= RecencyKey(list[j])
        /\ Len(listDom[p]) = Cardinality(Range(listDom[p]))

\* A page shows two records in the order [b, a] where the mapping holds
\* them as a, b: a has no updatedAt and an older createdAt than b's updatedAt.
C7_Witness ==
  \E p \in Pages :
    /\ Len(_versions[p]) = 2
    /\ _versions[p][1].updatedAt = Absent
    /\ _versions[p][1].createdAt < _versions[p][2].updatedAt
    /\ listDom[p] = << _versions[p][2].id, _versions[p][1].id >>

\* C8: the remote read gives distinct results: a missing path gives null
\* and no error, a rejected credential gives the authentication error, and
\* any other response that is not a success gives the transport error with
\* the status code.
C8_ReadClassifies ==
  call.fn \in {"getFileFromGitHub", "getFileSha"} /\ call.resp.kind = "http" =>
    LET r == call.resp
    IN  /\ r.status = 404 => call.out = "null" /\ call.threw = NoErr
        /\ r.status = 401 => call.out = "throw" /\ call.threw.msg = MsgAuth
        /\ ~Ok(r) /\ r.status \notin {401, 404} =>
             call.out = "throw" /\ call.threw = Err(MsgFetch, r.status)

\* C9: a write that failed throws one of distinct errors: the
\* authentication error for 401, the edited-by-others Conflict for 409, the
\* stale-view Conflict for 422, and a general error for any other status
\* that is not a success; it returns nothing, so no tag and no success.
C9_WriteErrors ==
  call.fn \in {"saveFileToGitHub", "saveToGitHub"} =>
    LET r == call.resp
    IN  /\ Ok(r) => call.out = "return" /\ call.threw = NoErr
        /\ ~Ok(r) => call.out = "throw" /\ call.threw # NoErr /\ call.sha = NoSha
        /\ r.kind = "http" /\ r.status = 401 => call.threw.msg = MsgAuth
        /\ r.kind = "http" /\ r.status = 409 => call.threw.msg = MsgConflict
        /\ r.kind = "http" /\ r.status = 422 => call.threw.msg = MsgStale
        /\ r.kind = "http" /\ ~Ok(r) /\ r.status \notin {401, 409, 422} =>
             /\ call.threw.msg \notin {MsgAuth, MsgConflict, MsgStale}
             /\ call.threw =
                  IF r.message # "" THEN Err(r.message, 0) ELSE Err(MsgApi, r.status)
        /\ Cardinality({MsgAuth, MsgConflict, MsgStale, MsgApi}) = 4

\* saveFileToGitHub got 422 and threw the stale-view Conflict.
C9_Witness ==
  /\ call.fn = "saveFileToGitHub"
  /\ call.resp.status = 422
  /\ call.out = "throw" /\ call.threw.msg = MsgStale

\* What C10 asks of one step.
C10_Step ==
  \A p \in Pages :
    /\ page[p].pc = "loading" /\ page'[p].pc # "loading" => remote' = remote
    /\ page[p].pc = "fetched" /\ page'[p].pc # "fetched" =>
         LET r == page[p].resp
         IN  /\ remote' = remote
             /\ IF r.kind = "http" /\ r.status \in 200..299 /\ r.text # CorruptText
                THEN /\ _versions'[p] = JSONparse(r.text).versions
                     /\ cache' = JSONstringify(_versions'[p])
                ELSE /\ cache' = cache
                     /\ _versions'[p] =
                          IF cache \notin {NoItem, CorruptText}
                          THEN JSONparse(cache) ELSE <<>>

\* C10, of every step: when the read of the published store file succeeds, loadVersions
\* makes the file's versions the in-memory mapping and replaces the cache by
\* them; when it fails (network error, a response that is not a success, or
\* a text that does not parse), the in-memory mapping becomes the cached
\* mapping if there is one and it parses, and the empty mapping otherwise;
\* loadVersions does not write the remote store.
C10_LoadVersions == [][C10_Step]_vars

\* A page loaded the cached mapping: the read failed, the cache holds a
\* record that the store file no longer holds, and the page lists it.
C10_Witness ==
  \E p \in Pages :
    /\ page[p].pc = "ready" /\ starts = 0
    /\ _versions[p] = <<LegacyRecord>> /\ cache = JSONstringify(<<LegacyRecord>>)
    /\ RemoteVersions = <<>>
    /\ listDom[p] = << LegacyRecord.id >>

\* Operation o ends in this step.
Ends(o) == op[o].pc # "idle" /\ op'[o].pc = "idle"

\* What C11 asks of one step.
C11_Step ==
  /\ \A p \in Pages : unhandled'[p] = NoErr
  /\ \A o \in Ops :
       LET p == PageOf(o)
       IN  /\ Ends(o) /\ op[o].pc = "getDone" =>
                /\ status'[p].type = "error"
                /\ status'[p].msg \in {MsgFetch, MsgNetwork, MsgSyntax, MsgNotFound}
           /\ Ends(o) /\ op[o].pc = "putDone" /\ ~Ok(op[o].put) =>
                /\ status'[p].type = "error"
                /\ status'[p].msg = saveFileToGitHub(op[o].put).msg
           /\ Ends(o) /\ op[o].pc = "putDone" /\ Ok(op[o].put) =>
                status'[p].type = "success"
  /\ starts' # starts /\ op' = op /\ token = "" =>
       \E p \in Pages :
         /\ status'[p] \in {ErrorStatus(Err(MsgNoToken, 0)),
                            ErrorStatus(Err(MsgNoName, 0))}
         /\ \A q \in Pages \ {p} : status'[q] = status[q]

\* C11, of every step: a failure of a mutating operation started from a
\* button (no token, the fetch failed, NotFound, the write was refused or
\* failed) is caught by the button's handler and ends in an error shown in
\* the status element; no error leaves a handler uncaught.
C11_FailuresShown == [][C11_Step]_vars

\* A write was refused with 409; no operation is pending, the Conflict is
\* shown and no error left the handler.
C11_Witness ==
  \E p \in Pages :
    /\ status[p] = ErrorStatus(Err(MsgConflict, 0))
    /\ unhandled[p] = NoErr
    /\ \A o \in Ops : ~InFlight(o)

\* What C12 asks of one step.
C12_Step ==
  \A o \in Ops :
    /\ op'[o].pc # op[o].pc =>
         \/ op[o].pc = "idle" /\ op'[o].pc = "getSent" /\ starts' = starts + 1
         \/ op[o].pc = "getSent" /\ op'[o].pc = "getDone"
         \/ op[o].pc = "getDone" /\ op'[o].pc \in {"putSent", "idle"}
         \/ op[o].pc = "putSent" /\ op'[o].pc = "putDone"
         \/ op[o].pc = "putDone" /\ op'[o].pc = "idle"
    /\ Ends(o) => op'[o] = IdleOp
    /\ op[o].pc = "getDone" /\ ~FetchSucceeded(op[o].get) /\ op'[o].pc # "getDone"
         => op'[o] = IdleOp
    /\ op[o].pc = "putDone" /\ op'[o].pc # "putDone" => op'[o] = IdleOp

\* C12, of every step: no operation is tried again by the program: a
\* request is sent only by a started action, each action sends at most one
\* read (when it starts) and at most one write (after its read), and after
\* a failure it has no request pending and sends none.
C12_NoRetry == [][C12_Step]_vars

\* A write came back 422 and the operation ended with the stale-view
\* Conflict shown: nothing is pending.
C12_Witness ==
  \E p \in Pages :
    /\ status[p] = ErrorStatus(Err(MsgStale, 0))
    /\ \A o \in Ops : ~InFlight(o)
    /\ starts = MaxStarts

\* The candidate with the suffix -n.
Suffixed(slug, n) == slug \o <<"-">> \o Decimal(n)

\* C13: uniqueSlug(candidate, existingIds) returns (so it ends) an id that
\* is not in existingIds: the candidate when it is not in existingIds, and
\* otherwise candidate-n for the least n >= 2 with candidate-n not in
\* existingIds.
C13_UniqueSlug ==
  call.fn = "uniqueSlug" =>
    LET ids == call.existingIds
        least == CHOOSE n \in 2..(Cardinality(ids) + 2) :
                   /\ Suffixed(call.slug, n) \notin ids
                   /\ \A m \in 2..(n - 1) : Suffixed(call.slug, m) \in ids
    IN  /\ call.out \notin ids
        /\ call.slug \notin ids => call.out = call.slug
        /\ call.slug \in ids => call.out = Suffixed(call.slug, least)

\* uniqueSlug went past t-2 .. t-9 and returned t-10.
C13_Witness ==
  /\ call.fn = "uniqueSlug"
  /\ call.slug = <<"t">> /\ call.slug \in call.existingIds
  /\ call.out = <<"t", "-", "1", "0">>

\* The characters of s that are letters a-z or digits.
RECURSIVE Alnums(_)
Alnums(s) ==
  IF s = <<>> THEN <<>>
  ELSE (IF IsAlnum(Head(s)) THEN <<Head(s)>> ELSE <<>>) \o Alnums(Tail(s))

\* C15: the result of slugify(name) has only letters a-z, digits and
\* hyphens, no hyphen at its start or end and no two hyphens in a row; its
\* letters and digits are those of the lower-cased name with ae, o and a
\* for the accented letters, and a hyphen stands where other characters
\* stood between them ("Mørk 16:9" gives "mork-16-9").
C15_Slugify ==
  call.fn = "slugify" =>
    LET out == call.out
        plain == TranslitAll(LowerAll(call.name))
    IN  /\ \A i \in 1..Len(out) : out[i] \in AZ \cup Digit09 \cup {"-"}
        /\ out # <<>> => out[1] # "-" /\ out[Len(out)] # "-"
        /\ \A i \in 1..(Len(out) - 1) : ~(out[i] = "-" /\ out[i + 1] = "-")
        /\ Alnums(out) = Alnums(plain)
        /\ \A i \in 1..(Len(plain) - 1) :
             IsAlnum(plain[i]) /\ IsAlnum(plain[i + 1]) =>
               \E j \in 1..(Len(out) - 1) :
                 /\ out[j] = plain[i] /\ out[j + 1] = plain[i + 1]
                 /\ Len(Alnums(SubSeq(out, 1, j))) = Len(Alnums(SubSeq(plain, 1, i)))
        /\ call.name = MorkName =>
             out = <<"m", "o", "r", "k", "-", "1", "6", "-", "9">>

\* slugify was given "Mørk 16:9" and returned "mork-16-9".
C15_Witness ==
  /\ call.fn = "slugify" /\ call.name = MorkName
  /\ call.out = <<"m", "o", "r", "k", "-", "1", "6", "-", "9">>

\* C14: for every text s, also one with characters of several bytes,
\* base64ToUtf8(utf8ToBase64(s)) is s.
C14_RoundTrip ==
  call.fn = "base64ToUtf8" => call.out = call.str

\* The same for the texts that do not start with U+FEFF.
C14_RoundTripWithoutMark ==
  call.fn = "base64ToUtf8" /\ (call.str = <<>> \/ Head(call.str) # 65279) =>
    call.out = call.str

\* What C16 asks of one step.
C16_Step ==
  LET buffer == IF frames'.variant = "embed" THEN 5 ELSE 0
      e == frames'.last
  IN  /\ ~frames.ran /\ frames'.ran =>
           /\ DOMAIN frames'.height = {"c1", "c2"}
           /\ \A c \in DOMAIN frames'.height :
                frames'.height[c] = IF frames'.variant = "embed" THEN 600 ELSE 400
      /\ frames.ran =>
           /\ frames'.variant = frames.variant
           /\ DOMAIN frames'.height = DOMAIN frames.height
           /\ \A c \in DOMAIN frames.height :
                frames'.height[c] =
                  IF frames' # frames /\ e.type = "grafer-resize"
                     /\ e.source = ContentWindow(c)
                  THEN e.height + buffer
                  ELSE frames.height[c]

\* C16, of every step: every iframe the script makes starts at the default
\* height of the script (600 or 400); a message of type grafer-resize with
\* height h gives the iframe whose content window sent it the height h plus
\* the buffer of the script (5 or 0) and leaves the other iframes; a message
\* from a window of no iframe, or of another type, changes no height.
C16_Resizer == [][C16_Step]_vars

\* embed.js got grafer-resize 350 from the first iframe: that one is 355
\* high and the other still 600.
C16_Witness ==
  /\ frames.ran /\ frames.variant = "embed"
  /\ frames.last = [source |-> "w1", type |-> "grafer-resize", height |-> 350]
  /\ frames.height["c1"] = 355 /\ frames.height["c2"] = 600

\* What C17 asks of one step.
C17_Step ==
  /\ \A o \in Ops :
       op'[o].kind = "save" =>
         op'[o].arg # <<>> /\ Head(op'[o].arg) # " "
         /\ op'[o].arg[Len(op'[o].arg)] # " "
  /\ \A p \in Pages :
       /\ starts' # starts
       /\ status'[p] = ErrorStatus(Err(MsgNoName, 0))
       /\ \A o \in Ops : ~(op'[o].pc = "getSent" /\ op[o].pc = "idle")
       => UNCHANGED <<op, remote, cache, _versions, _sha, listDom>>

\* C17, of every step: a save whose name is empty after trimming is
\* rejected with the validation error shown; it starts no operation (no
\* remote read or write) and changes neither the in-memory mapping nor the
\* cache.
C17_EmptyNameRejected == [][C17_Step]_vars

\* A save of a blank name was rejected on a page that has a token: the
\* validation error is shown and no operation was started.
C17_Witness ==
  \E p \in Pages :
    /\ status[p] = ErrorStatus(Err(MsgNoName, 0))
    /\ token = GoodToken /\ starts = 1
    /\ \A o \in Ops : op[o] = IdleOp

\* C18: the tag a write carries is the tag of the fetch the same operation
\* made just before: the tag of the file GitHub answered with when the fetch
\* found the file, and no tag when the fetch found no file; it is the tag of
\* the file as it was when that fetch was answered, whatever tags earlier
\* operations read.
C18_WriteCarriesFetchedTag ==
  \A o \in Ops :
    op[o].pc \in {"putSent", "putDone"} =>
      /\ op[o].get.kind = "http" /\ op[o].get.status \in {200, 404}
      /\ op[o].get.status = 200 =>
           op[o].body.sha = op[o].get.sha /\ op[o].body.sha # NoSha
      /\ op[o].get.status = 404 => op[o].body.sha = NoSha
      /\ op[o].body.sha = FileSha(op[o].read)

\* A write carries the tag of a file that an earlier operation had written:
\* the tag that earlier operation read was another one, or none.
C18_Witness ==
  \E o \in Ops :
    /\ op[o].pc = "putSent"
    /\ op[o].body.sha # NoSha
    /\ op[o].read \notin {first[1] : first \in FirstStates}
    /\ op[o].body.sha = BlobSha(op[o].read.text)

\* What C19 asks of one step.
C19_Step ==
  /\ cache' # cache =>
       \/ \E p \in Pages : page[p].pc = "fetched" /\ page'[p].pc = "ready"
       \/ \E o \in Ops : ResumesAfterWrite(o) /\ Ok(op[o].put)
  /\ \A o \in Ops :
       \/ InFlight(o) /\ op[o].pc # "putDone"
       \/ ResumesAfterFetch(o) /\ ~InFlight(o)'
       \/ ResumesAfterWrite(o) /\ ~Ok(op[o].put)
       => (op'[o].pc # op[o].pc => cache' = cache)

\* C19, of every step: a save, update or delete sets the cache only when it
\* resumes after a write that GitHub accepted; no step of an operation
\* before that, and no step in which its fetch or its write turns out to
\* have failed, changes the cache.
C19_CacheAfterWrite == [][C19_Step]_vars

\* A write was refused: the page shows the conflict, _versions holds the
\* mapping that was not written, and the cache does not.
C19_Witness ==
  \E p \in Pages :
    /\ status[p].type = "error" /\ IsConflict(status[p].msg)
    /\ _versions[p] # <<>>
    /\ cache # JSONstringify(_versions[p])
    /\ \A o \in Ops : ~InFlight(o)

\* What C20 asks of one step.
C20_Step ==
  \A o \in Ops :
    op[o].kind = "update" /\ PutAnswered(o) /\ Ok(op'[o].put) =>
      LET base == op[o].base
          written == FileVersions(remote')
      IN  /\ Len(written) = Len(base)
          /\ \A i \in 1..Len(base) :
               IF base[i].id = op[o].arg
               THEN /\ written[i] =
                         [base[i] EXCEPT !.config = written[i].config,
                                         !.updatedAt = written[i].updatedAt]
                    /\ written[i].config \in Configs(PageOf(o))
                    /\ written[i].updatedAt # Absent
               ELSE written[i] = base[i]
          /\ \E i \in 1..Len(base) : base[i].id = op[o].arg

\* C20, of every step: the file an accepted write of updateVersion(id)
\* leaves on GitHub holds the records of the mapping the operation fetched,
\* as many and in the same places; the record with that id differs at most
\* in config and updatedAt, which are the page's configuration and a time
\* stamp, and every other record is the same.
C20_UpdateFrame == [][C20_Step]_vars

\* An update of one of two records was accepted: the file differs from the
\* mapping the operation fetched.
C20_Witness ==
  \E o \in Ops :
    /\ op[o].kind = "update" /\ op[o].pc = "putDone" /\ Ok(op[o].put)
    /\ Len(op[o].base) = 2
    /\ FileVersions(remote) # op[o].base
    /\ Keys(FileVersions(remote)) = Keys(op[o].base)

\* What C21 asks of one step.
C21_Step ==
  /\ \A o \in Ops : InFlight(o)' => op'[o].token # ""
  /\ csvSave'.pc \notin {"none", "idle"} => csvSave'.token # ""
  /\ starts' # starts /\ token = "" =>
       /\ op' = op
       /\ UNCHANGED <<_versions, _sha, cache, remote>>
       /\ \E p \in Pages :
            /\ status'[p] \in {ErrorStatus(Err(MsgNoToken, 0)),
                               ErrorStatus(Err(MsgNoName, 0))}
            /\ unhandled'[p] = NoErr
  /\ csvSave.pc = "idle" /\ csvSave' # csvSave /\ token = "" =>
       /\ csvSave'.pc = "idle" /\ ~csvSave'.disabled
       /\ csvSave'.view = "githubSettingsPanel"
       /\ csvSave.statusElement =>
            csvSave'.status = ErrorStatus(Err(MsgSetupToken, 0))
       /\ UNCHANGED <<_versions, _sha, cache, remote, token>>

Pending(p, button) ==
  \E o \in Ops :
    /\ InFlight(o) /\ PageOf(o) = p
    /\ ButtonOf(op[o].kind, op[o].arg) = button

\* C22: a button of the versions panel is disabled only while the save,
\* update or delete it started is waiting for GitHub; once the operation has
\* ended, with success or with an error, the button is enabled again.
C22_ButtonsEnabledAgain ==
  \A p \in Pages : \A button \in disabled[p] : Pending(p, button)

\* The same for the save button and the update buttons alone.
C22_SaveAndUpdateButtons ==
  \A p \in Pages : \A button \in disabled[p] :
    button[1] \in {"save", "update"} => Pending(p, button)

\* What C23 asks of one step.
C23_Step ==
  \A o \in Ops :
    ResumesAfterWrite(o) /\ Ok(op[o].put) =>
      /\ Parses(cache')
      /\ FileContent(JSONparse(cache')) = op[o].body.content

\* C23, of every step: an operation that resumes after its write was
\* accepted stores in the cache the mapping it wrote to the remote file,
\* also when another operation of the same page ran in between.
C23_CacheIsWhatWasWritten == [][C23_Step]_vars

\* What the code does in that step: the cache gets the module's mapping as
\* it is then.
C23_CacheIsModuleMapping ==
  [][\A o \in Ops :
       ResumesAfterWrite(o) /\ Ok(op[o].put) =>
         cache' = JSONstringify(_versions[PageOf(o)])]_vars

\* The record of mapping m with the id, as a set: empty when there is none.
Entry(m, id) == {r \in Range(m) : r.id = id}

\* The id of the record an operation inserts, changes or removes.
Touched(o) == IF op[o].kind = "save" THEN op[o].result ELSE op[o].arg

\* What C24 asks of one step.
C24_Step ==
  \A o \in Ops :
    ResumesAfterWrite(o) /\ ~Ok(op[o].put) =>
      LET m == _versions'[PageOf(o)]
      IN  \/ Entry(m, Touched(o)) = Entry(FileVersions(remote'), Touched(o))
          \/ Entry(m, Touched(o)) = Entry(op[o].base, Touched(o))

\* C24, of every step: when the write of a save, update or delete was
\* refused or failed, the module's mapping does not show the rejected
\* change: the record the operation inserted, changed or removed is in
\* _versions as the remote file has it, or as the operation fetched it.
C24_RejectedChangeNotKept == [][C24_Step]_vars

\* The saveTokenBtn handler v resumes with the answer to its request.
VerifyEnds(v) ==
  settings.verify[v].pc = "done" /\ settings'.verify[v].pc = "idle"

\* GitHub answered the request with a user.
Verified(resp) == resp.kind = "http" /\ resp.status = 200 /\ Parses(resp.text)

\* What C25 asks of one step.
C25_Step ==
  /\ token' # token =>
       \/ \E v \in VerifySlots :
            /\ VerifyEnds(v) /\ Verified(settings.verify[v].resp)
            /\ token' = settings.verify[v].token
            /\ settings.verify[v].token \in {TokenOf(trim(typed)) : typed \in TokenInputs}
       \/ /\ token' = ""
          /\ settings'.tokenStatus = TokenStatus("amber", "Token slettet")
          /\ settings'.verify = settings.verify
  /\ \A v \in VerifySlots :
       VerifyEnds(v) /\ ~Verified(settings.verify[v].resp) =>
         /\ token' = token
         /\ settings'.tokenStatus.colour = "red"
  /\ settings'.tokenStatus = TokenStatus("red", "Skriv inn en token")
     /\ settings'.verify = settings.verify
     => token' = token

\* C25, of every step: the stored token changes only when a saveTokenBtn
\* handler resumes after GitHub answered its verification with a user, and
\* then to the token that handler verified, or when the delete button
\* removes it; a verification that fails, and a click with an empty input,
\* leave the stored token as it was.
C25_TokenStoredAfterVerification == [][C25_Step]_vars

\* The user tried to save a token that GitHub rejected: the error is shown,
\* nothing is pending, and the token stored before is still there.
C25_Witness ==
  /\ token = GoodToken
  /\ settings.tokenStatus = TokenStatus("red", "Ugyldig token")
  /\ \A v \in VerifySlots : settings.verify[v] = IdleVerify

====
